---- MODULE Spec2Model ----
(***************************************************************************)
(* Model of rewrite_code_sum.py: process_code_summarization_files().       *)
(* The script enumerates data/code-summarization/*.jsonl and rewrites each *)
(* file in place, keeping only the whitelisted top-level keys of every     *)
(* JSON line.                                                              *)
(*                                                                         *)
(* A line of text is a record [kind, pairs]:                               *)
(*   "garbage" - text that is not JSON             (json.loads raises)     *)
(*   "blank"   - a line of whitespace only         (json.loads raises)     *)
(*   "empty"   - the empty string, what strip() makes of a blank line      *)
(*   "number"  - a JSON number such as 1           (decodes to an int)     *)
(*   "object"  - a JSON object, pairs = its "key": value members in the    *)
(*               order they are written, values as written ("1.00")       *)
(* A decoded dict is a function from keys to values; the dict built by the *)
(* comprehension is a sequence of [k, v] in insertion order.               *)
(***************************************************************************)
EXTENDS Naturals, Sequences, FiniteSets, TLC

\* ---- bounds of the model ----
MaxLines == 3
MaxRuns == 2

\* ---- the file system the script runs on ----
dir_path == "data/code-summarization"

PathA == [dir |-> dir_path, name |-> "a", suffix |-> ".jsonl"]
PathB == [dir |-> dir_path, name |-> "b", suffix |-> ".jsonl"]
PathNotes == [dir |-> dir_path, name |-> "notes", suffix |-> ".txt"]
PathOther == [dir |-> "data/other", name |-> "a", suffix |-> ".jsonl"]
NoFile == [dir |-> "", name |-> "", suffix |-> ""]

\* ---- line texts ----
Pair(k, v) == [k |-> k, v |-> v]

Garbage == [kind |-> "garbage", pairs |-> <<>>]
Blank == [kind |-> "blank", pairs |-> <<>>]
Number == [kind |-> "number", pairs |-> <<>>]
ObjExtra == [kind |-> "object",
             pairs |-> <<Pair("task", "1.00"), Pair("extra", "2"), Pair("lang", "2")>>]
ObjDup == [kind |-> "object",
           pairs |-> <<Pair("lang", "2"), Pair("task", "2"), Pair("task", "1")>>]

LineTexts == {Garbage, Blank, Number, ObjExtra, ObjDup}

Contents == UNION {[1..n -> LineTexts] : n \in 0..MaxLines}

\* ---- line 14-17: the whitelist, a Python set ----
fields_to_keep ==
    {"task", "lang", "url", "prompt_category", "prompt_id", "model_name", "metrics"}

\* Iteration orders of the set: str hashes are randomised per process, so
\* each run of the script iterates fields_to_keep in an order of its own.
SetOrders ==
    { <<"task", "metrics", "model_name", "prompt_category", "prompt_id", "lang", "url">>,
      <<"model_name", "lang", "prompt_category", "url", "metrics", "prompt_id", "task">> }

\* ---- json: decoding and encoding of values and lines ----
DecodeValue(t) == IF t = "2" THEN 2 ELSE 1

\* a json.dump that does not write the value it was given
EncodeValueOther(v) == IF v = 2 THEN "1" ELSE "2"

EncodeValue(v) == IF v = 2 THEN "2" ELSE "1"

\* line.strip(): whitespace-only text becomes the empty string; the other
\* texts lose the newline, which a text of the model does not record
Empty == [kind |-> "empty", pairs |-> <<>>]

strip(line) == IF line.kind = "blank" THEN Empty ELSE line

\* json.loads raises JSONDecodeError on text that is not a JSON value
JSONDecodeError(text) == text.kind \in {"garbage", "blank", "empty"}

LastIndex(pairs, k) ==
    CHOOSE i \in DOMAIN pairs :
        /\ pairs[i].k = k
        /\ \A j \in DOMAIN pairs : pairs[j].k = k => j <= i

\* json.loads of an object: a dict, the last duplicate of a key wins
DictOf(pairs) ==
    [k \in {pairs[i].k : i \in DOMAIN pairs} |-> DecodeValue(pairs[LastIndex(pairs, k)].v)]

json_loads(text) ==
    IF text.kind = "object"
    THEN [type |-> "dict", map |-> DictOf(text.pairs)]
    ELSE [type |-> "int", map |-> <<>>]

\* "key in data" raises TypeError when data is an int
TypeError(data) == data.type = "int"

\* the comprehension without its whitelist: every key of data is kept
FilterRecordKeepAll(data, order) ==
    LET kept == SelectSeq(order \o <<"extra">>, LAMBDA key : key \in DOMAIN data)
    IN  [i \in 1..Len(kept) |-> Pair(kept[i], data[kept[i]])]

\* the comprehension with a placeholder in place of data[key]
FilterRecordPlaceholder(data, order) ==
    LET kept == SelectSeq(order, LAMBDA key : key \in DOMAIN data)
    IN  [i \in 1..Len(kept) |-> Pair(kept[i], 1)]

\* line 32-36: {key: data[key] for key in fields_to_keep if key in data}
FilterRecord(data, order) ==
    LET kept == SelectSeq(order, LAMBDA key : key \in DOMAIN data)
    IN  [i \in 1..Len(kept) |-> Pair(kept[i], data[kept[i]])]

\* line 47: json.dump(data, f) writes the members in insertion order
json_dump(rec) ==
    [kind |-> "object",
     pairs |-> [i \in 1..Len(rec) |-> Pair(rec[i].k, EncodeValue(rec[i].v))]]

\* dir_path.glob('*'): every file of the directory
GlobMatchesAll(p) == p.dir = dir_path

\* line 20: dir_path.glob('*.jsonl')
GlobMatches(p) == p.dir = dir_path /\ p.suffix = ".jsonl"

glob(files) == {p \in DOMAIN files : GlobMatches(p)}

Perms(S) ==
    {s \in [1..Cardinality(S) -> S] : \A i, j \in DOMAIN s : s[i] = s[j] => i = j}

\* every match is opened for writing up front
OpenTruncateAll(files, p) ==
    [q \in DOMAIN files \cup {p} |-> IF q = p \/ GlobMatches(q) THEN <<>> ELSE files[q]]

\* open(path, 'w'): creates the file if it is missing, truncates it
OpenTruncate(files, p) ==
    [q \in DOMAIN files \cup {p} |-> IF q = p THEN <<>> ELSE files[q]]

\* the output goes to a temporary file next to the original
WriteTargetTmp(p) == [p EXCEPT !.suffix = ".jsonl.tmp"]

\* line 45: the file written is the file read
WriteTarget(p) == p

\* ---- state ----
VARIABLES
    fs,              \* path -> sequence of line texts
    dirOrder,        \* the order in which the directory enumerates its matches
    run,             \* number of runs of the script started so far
    status,          \* "idle", "running", "done", "crashed", "aborted"
    order,           \* this run's iteration order of fields_to_keep
    todo,            \* the paths the glob generator has still to yield
    file_path,       \* the loop variable
    pc,              \* "loop", "read", "reopen", "write"
    lineNo,          \* index of the next line "for line in f" yields
    processed_lines, \* line 24
    wi,              \* index of the next element of processed_lines to write
    readOpen,        \* the read handle of line 25 is open
    log,             \* what the run has printed
    snap,            \* fs when the current run started
    opened,          \* paths this run has opened
    done,            \* paths this run has completed
    filtered,        \* paths an earlier run has completed
    killed           \* some run was aborted from outside

vars == <<fs, dirOrder, run, status, order, todo, file_path, pc, lineNo,
          processed_lines, wi, readOpen, log, snap, opened, done, filtered, killed>>

Fixed == (PathNotes :> <<ObjExtra, Garbage>>) @@ (PathOther :> <<ObjExtra>>)

LenAt(c, p) == IF p \in DOMAIN c THEN Len(c[p]) ELSE 0

Msg(kind, p) == [kind |-> kind, file |-> p]

Init ==
    /\ \E present \in SUBSET {PathA, PathB} :
         \E c \in [present -> Contents] :
            /\ LenAt(c, PathA) + LenAt(c, PathB) <= MaxLines
            /\ fs = c @@ Fixed
    /\ dirOrder \in Perms(glob(fs))
    /\ run = 0
    /\ status = "idle"
    /\ order = <<>>
    /\ todo = <<>>
    /\ file_path = NoFile
    /\ pc = "loop"
    /\ lineNo = 1
    /\ processed_lines = <<>>
    /\ wi = 1
    /\ readOpen = FALSE
    /\ log = <<>>
    /\ snap = fs
    /\ opened = {}
    /\ done = {}
    /\ filtered = {}
    /\ killed = FALSE

\* `python rewrite_code_sum.py`: a new process, line 53 calls the function,
\* the glob generator of line 20 is created.
StartRun ==
    /\ status # "running"
    /\ run < MaxRuns
    /\ run' = run + 1
    /\ status' = "running"
    /\ order' \in SetOrders
    /\ todo' = SelectSeq(dirOrder, LAMBDA p : p \in glob(fs))
    /\ file_path' = NoFile
    /\ pc' = "loop"
    /\ lineNo' = 1
    /\ processed_lines' = <<>>
    /\ wi' = 1
    /\ readOpen' = FALSE
    /\ log' = <<>>
    /\ snap' = fs
    /\ opened' = {}
    /\ done' = {}
    /\ filtered' = IF status = "idle" THEN {} ELSE filtered \cup done
    /\ UNCHANGED <<fs, dirOrder, killed>>

\* the file is opened with a mode that truncates it ('w+') before it is read
BeginFileTruncating ==
    /\ status = "running" /\ pc = "loop" /\ todo # <<>>
    /\ file_path' = Head(todo)
    /\ todo' = Tail(todo)
    /\ log' = Append(log, Msg("start", Head(todo)))
    /\ processed_lines' = <<>>
    /\ readOpen' = TRUE
    /\ opened' = opened \cup {Head(todo)}
    /\ lineNo' = 1
    /\ pc' = "read"
    /\ fs' = OpenTruncate(fs, Head(todo))
    /\ UNCHANGED <<dirOrder, run, status, order, wi, snap, done, filtered, killed>>

\* line 20-25: the loop yields the next path, prints, opens it for reading
BeginFile ==
    /\ status = "running" /\ pc = "loop" /\ todo # <<>>
    /\ file_path' = Head(todo)
    /\ todo' = Tail(todo)
    /\ log' = Append(log, Msg("start", Head(todo)))
    /\ processed_lines' = <<>>
    /\ readOpen' = TRUE
    /\ opened' = opened \cup {Head(todo)}
    /\ lineNo' = 1
    /\ pc' = "read"
    /\ UNCHANGED <<fs, dirOrder, run, status, order, wi, snap, done, filtered, killed>>

HasLine == status = "running" /\ pc = "read" /\ lineNo <= Len(fs[file_path])

CurLine == strip(fs[file_path][lineNo])

\* line 26-39: a line that decodes to a dict is filtered and appended
ReadLineOk ==
    /\ HasLine
    /\ ~JSONDecodeError(CurLine)
    /\ ~TypeError(json_loads(CurLine))
    /\ processed_lines' =
          Append(processed_lines, FilterRecord(json_loads(CurLine).map, order))
    /\ lineNo' = lineNo + 1
    /\ UNCHANGED <<fs, dirOrder, run, status, order, todo, file_path, pc, wi,
                   readOpen, log, snap, opened, done, filtered, killed>>

\* no except clause: the decode error ends the run
ReadLineDecodeErrorFatal ==
    /\ HasLine
    /\ JSONDecodeError(CurLine)
    /\ status' = "crashed"
    /\ readOpen' = FALSE
    /\ UNCHANGED <<fs, dirOrder, run, order, todo, file_path, pc, lineNo,
                   processed_lines, wi, log, snap, opened, done, filtered, killed>>

\* except json.JSONDecodeError: continue, without the print
ReadLineDecodeErrorSilent ==
    /\ HasLine
    /\ JSONDecodeError(CurLine)
    /\ lineNo' = lineNo + 1
    /\ UNCHANGED <<fs, dirOrder, run, status, order, todo, file_path, pc, log,
                   processed_lines, wi, readOpen, snap, opened, done, filtered, killed>>

\* line 40-42: except json.JSONDecodeError: print and continue
ReadLineDecodeError ==
    /\ HasLine
    /\ JSONDecodeError(CurLine)
    /\ log' = Append(log, Msg("error", file_path))
    /\ lineNo' = lineNo + 1
    /\ UNCHANGED <<fs, dirOrder, run, status, order, todo, file_path, pc,
                   processed_lines, wi, readOpen, snap, opened, done, filtered, killed>>

\* line 35: "key in data" on an int raises TypeError, which no handler
\* catches: the with block closes the file and the run ends in a traceback
ReadLineTypeError ==
    /\ HasLine
    /\ ~JSONDecodeError(CurLine)
    /\ TypeError(json_loads(CurLine))
    /\ status' = "crashed"
    /\ readOpen' = FALSE
    /\ UNCHANGED <<fs, dirOrder, run, order, todo, file_path, pc, lineNo,
                   processed_lines, wi, log, snap, opened, done, filtered, killed>>

\* line 25-26: the iteration is exhausted, the with block closes the file
EndRead ==
    /\ status = "running" /\ pc = "read" /\ lineNo > Len(fs[file_path])
    /\ readOpen' = FALSE
    /\ pc' = "reopen"
    /\ UNCHANGED <<fs, dirOrder, run, status, order, todo, file_path, lineNo,
                   processed_lines, wi, log, snap, opened, done, filtered, killed>>

\* line 45: open(file_path, 'w')
OpenWrite ==
    /\ status = "running" /\ pc = "reopen"
    /\ fs' = OpenTruncate(fs, WriteTarget(file_path))
    /\ wi' = 1
    /\ pc' = "write"
    /\ UNCHANGED <<dirOrder, run, status, order, todo, file_path, lineNo,
                   processed_lines, readOpen, log, snap, opened, done, filtered, killed>>

\* line 46-48: json.dump(data, f); f.write('\n')
WriteLine ==
    /\ status = "running" /\ pc = "write" /\ wi <= Len(processed_lines)
    /\ fs' = [fs EXCEPT ![WriteTarget(file_path)] =
                 Append(@, json_dump(processed_lines[wi]))]
    /\ wi' = wi + 1
    /\ UNCHANGED <<dirOrder, run, status, order, todo, file_path, pc, lineNo,
                   processed_lines, readOpen, log, snap, opened, done, filtered, killed>>

\* line 48-50: the write handle is closed, the completion line is printed
Complete ==
    /\ status = "running" /\ pc = "write" /\ wi > Len(processed_lines)
    /\ log' = Append(log, Msg("completed", file_path))
    /\ done' = done \cup {file_path}
    /\ pc' = "loop"
    /\ UNCHANGED <<fs, dirOrder, run, status, order, todo, file_path, lineNo,
                   processed_lines, wi, readOpen, snap, opened, filtered, killed>>

\* line 20, 53: the generator is exhausted, the function returns, exit 0
Finish ==
    /\ status = "running" /\ pc = "loop" /\ todo = <<>>
    /\ status' = "done"
    /\ UNCHANGED <<fs, dirOrder, run, order, todo, file_path, pc, lineNo,
                   processed_lines, wi, readOpen, log, snap, opened, done, filtered, killed>>

\* The process is terminated from outside, or an open/read/write raises
\* OSError: nothing catches it, the handles are closed, the run is over.
Abort ==
    /\ status = "running"
    /\ status' = "aborted"
    /\ readOpen' = FALSE
    /\ killed' = TRUE
    /\ UNCHANGED <<fs, dirOrder, run, order, todo, file_path, pc, lineNo,
                   processed_lines, wi, log, snap, opened, done, filtered>>

Next ==
    \/ StartRun
    \/ BeginFile
    \/ ReadLineOk
    \/ ReadLineDecodeError
    \/ ReadLineTypeError
    \/ EndRead
    \/ OpenWrite
    \/ WriteLine
    \/ Complete
    \/ Finish
    \/ Abort

Spec == Init /\ [][Next]_vars


\* ======================= properties =======================

\* the whitelist as the specification states it
Whitelist ==
    {"task", "lang", "url", "prompt_category", "prompt_id", "model_name", "metrics"}

\* the files the specification says are processed
IsTarget(p) == p.dir = "data/code-summarization" /\ p.suffix = ".jsonl"

IsDecodable(t) == t.kind \in {"number", "object"}

IsObject(t) == t.kind = "object"

\* keys of an object text, and of a record built in memory
TextKeys(t) == {t.pairs[i].k : i \in DOMAIN t.pairs}

RecKeys(rec) == {rec[i].k : i \in DOMAIN rec}

Distinct(seq) == \A i, j \in DOMAIN seq : seq[i].k = seq[j].k => i = j

\* the first n lines of a content that decode to an object
ObjectLines(content, n) == SelectSeq(SubSeq(content, 1, n), IsObject)

\* the number of lines of the current file the read loop has consumed
Consumed == lineNo - 1

\* number of entries of a sequence satisfying a test
Count(seq, Test(_)) == Len(SelectSeq(seq, Test))

\* what a content decodes to, line by line
LineValues(content) ==
    [i \in DOMAIN content |->
        IF IsDecodable(content[i])
        THEN json_loads(content[i])
        ELSE [type |-> "error", map |-> <<>>]]

\* C1: every record built from a decoded object, in memory and in a rewritten
\* file, has as its keys exactly the keys of the original that are in the
\* whitelist, each once: none added, none lost.
C1_KeySubset ==
    /\ file_path # NoFile =>
         LET src == ObjectLines(snap[file_path], Consumed)
         IN  /\ Len(processed_lines) = Len(src)
             /\ \A i \in DOMAIN processed_lines :
                   /\ RecKeys(processed_lines[i]) = TextKeys(src[i]) \cap Whitelist
                   /\ Distinct(processed_lines[i])
    /\ \A p \in done :
         LET src == ObjectLines(snap[p], Len(snap[p]))
         IN  /\ Len(fs[p]) = Len(src)
             /\ \A i \in DOMAIN fs[p] :
                   /\ TextKeys(fs[p][i]) = TextKeys(src[i]) \cap Whitelist
                   /\ Distinct(fs[p][i].pairs)

\* a completed file had a line with a non-whitelisted key and lacked "url"
C1_Witness ==
    \E p \in done : \E i \in DOMAIN fs[p] :
        /\ ObjectLines(snap[p], Len(snap[p]))[i] = ObjExtra
        /\ TextKeys(fs[p][i]) = {"task", "lang"}

\* C2 (as claimed): once a run has ended by itself, every file it began has
\* one line per valid JSON line of its content at the start of the run (N - M
\* lines), the i-th being the filtered form of the i-th valid line.
C2_AllValidLinesKept ==
    (status \in {"done", "crashed"}) =>
        \A p \in opened :
            LET n == Len(snap[p])
                m == Count(snap[p], LAMBDA t : ~IsDecodable(t))
                valid == SelectSeq(snap[p], IsDecodable)
            IN  /\ Len(fs[p]) = n - m
                /\ \A i \in DOMAIN fs[p] :
                      /\ i <= Len(valid)
                      /\ IsObject(fs[p][i])
                      /\ TextKeys(fs[p][i]) = TextKeys(valid[i]) \cap Whitelist

\* C3: every value of a record built from a decoded object, in memory and in
\* a rewritten file, is the value the original has under the same key.
C3_ValuesVerbatim ==
    /\ file_path # NoFile =>
         LET src == ObjectLines(snap[file_path], Consumed)
         IN  \A i \in DOMAIN processed_lines : \A j \in DOMAIN processed_lines[i] :
                 /\ i <= Len(src)
                 /\ processed_lines[i][j].k \in TextKeys(src[i])
                 /\ processed_lines[i][j].v =
                       json_loads(src[i]).map[processed_lines[i][j].k]
    /\ \A p \in done :
         LET src == ObjectLines(snap[p], Len(snap[p]))
         IN  \A i \in DOMAIN fs[p] : \A k \in TextKeys(fs[p][i]) :
                 /\ i <= Len(src)
                 /\ k \in TextKeys(src[i])
                 /\ json_loads(fs[p][i]).map[k] = json_loads(src[i]).map[k]

\* a completed file holds a record with two different values copied
C3_Witness ==
    \E p \in done : \E i \in DOMAIN fs[p] :
        /\ ObjectLines(snap[p], Len(snap[p]))[i] = ObjExtra
        /\ json_loads(fs[p][i]).map["task"] = 1
        /\ json_loads(fs[p][i]).map["lang"] = 2

\* a second or later run that ended by itself, no run having been aborted
SettledRerun == ~killed /\ run >= 2 /\ status \in {"done", "crashed"}

\* C4 (as claimed): after a second run every file has the content, as text,
\* that the first run left.
C4_SameText == SettledRerun => fs = snap

\* C4 (amended): after a second run every file decodes, line by line, to what
\* it decoded to after the first run (same paths, same number of lines, same
\* records), and the second run prints no diagnostic for a file an earlier
\* run completed.
C4_SameRecords ==
    /\ SettledRerun =>
          /\ DOMAIN fs = DOMAIN snap
          /\ \A p \in DOMAIN fs : LineValues(fs[p]) = LineValues(snap[p])
    /\ (~killed /\ run >= 2) =>
          \A i \in DOMAIN log : log[i].kind = "error" => log[i].file \notin filtered

\* a second run rewrote a filtered file with its keys in another order
C4_Witness ==
    /\ SettledRerun
    /\ status = "done"
    /\ \E p \in done \cap filtered : fs[p] # snap[p] /\ fs[p] # <<>>

\* out is the filtered form of the whole content src
FilteredForm(out, src) ==
    LET objs == ObjectLines(src, Len(src))
    IN  /\ Len(out) = Len(objs)
        /\ \A i \in DOMAIN out :
              /\ IsObject(out[i])
              /\ Distinct(out[i].pairs)
              /\ TextKeys(out[i]) = TextKeys(objs[i]) \cap Whitelist
              /\ \A k \in TextKeys(out[i]) :
                    json_loads(out[i]).map[k] = json_loads(objs[i]).map[k]

\* C5: when a run has stopped early, the files it completed hold their
\* filtered content, the files it did not reach hold the content they had
\* when the run started, and at most the one file in progress is otherwise.
C5_AbortLeavesOthersIntact ==
    (status \in {"aborted", "crashed"}) =>
        /\ \A p \in done : FilteredForm(fs[p], snap[p])
        /\ \A p \in DOMAIN snap \ opened : p \in DOMAIN fs /\ fs[p] = snap[p]
        /\ opened \ done \subseteq {file_path}
        /\ done \subseteq opened

\* a run stopped in the middle of writing its second file
C5_Witness ==
    /\ status = "aborted"
    /\ pc = "write"
    /\ done # {}
    /\ file_path \notin done
    /\ fs[file_path] # snap[file_path]
    /\ \E p \in done : fs[p] # snap[p]

\* C6: the file system changes only in the write phase of the current file,
\* when all its lines have been consumed and the read handle is closed; while
\* the file is being read, and until it is reopened, it holds its content of
\* the start of the run, however the run ends.
C6_NoWriteBeforeReadDone ==
    /\ []((file_path # NoFile /\ pc \in {"read", "reopen"}) =>
             fs[file_path] = snap[file_path])
    /\ [][fs' # fs =>
             /\ pc \in {"reopen", "write"}
             /\ ~readOpen
             /\ Consumed = Len(snap[file_path])
             /\ Len(processed_lines) = Len(ObjectLines(snap[file_path], Consumed))]_vars

\* a run stopped after reading lines of a file that needs filtering
C6_Witness ==
    /\ status = "aborted"
    /\ pc = "read"
    /\ Consumed >= 2
    /\ processed_lines # <<>>
    /\ snap[file_path][1] = ObjExtra

\* a step of the read loop on a line that is not JSON, other than the run
\* being stopped from outside
DecodeFailureStep ==
    /\ status = "running" /\ pc = "read" /\ status' # "aborted"
    /\ lineNo <= Len(fs[file_path])
    /\ ~IsDecodable(fs[file_path][lineNo])

\* C7: a line that fails to decode is logged and skipped and the run stays in
\* the read loop of the same file with the files to come untouched; a
\* completed file holds one record per line that decoded, none if no line
\* did; a run that returns has completed every matching file.
C7_DecodeFailureNotFatal ==
    /\ [][DecodeFailureStep =>
             /\ status' = "running" /\ pc' = "read"
             /\ file_path' = file_path /\ todo' = todo
             /\ lineNo' = lineNo + 1
             /\ processed_lines' = processed_lines
             /\ log' = Append(log, [kind |-> "error", file |-> file_path])
             /\ fs' = fs]_vars
    /\ [](\A p \in done :
             /\ Len(fs[p]) = Count(snap[p], IsDecodable)
             /\ (\A i \in DOMAIN snap[p] : ~IsDecodable(snap[p][i])) => fs[p] = <<>>)
    /\ [](status = "done" => done = {p \in DOMAIN snap : IsTarget(p)})

\* a run returned after emptying a file of malformed lines and rewriting
\* another file that had a malformed line among others
C7_Witness ==
    /\ status = "done"
    /\ \E p \in done :
          /\ snap[p] # <<>>
          /\ \A i \in DOMAIN snap[p] : ~IsDecodable(snap[p][i])
          /\ fs[p] = <<>>
    /\ \E p \in done :
          /\ \E i \in DOMAIN snap[p] : ~IsDecodable(snap[p][i])
          /\ fs[p] # <<>>

ConsumedOf(p) ==
    IF p \in done THEN snap[p]
    ELSE IF p = file_path THEN SubSeq(snap[p], 1, Consumed)
    ELSE <<>>

LogCount(kind, p) == Count(log, LAMBDA m : m.kind = kind /\ m.file = p)

\* C9 (as claimed): the diagnostics printed for a file are one per consumed
\* line that is malformed and not blank; a blank line gives none.
C9_BlankLinesSilent ==
    \A p \in DOMAIN snap :
        LogCount("error", p) = Count(ConsumedOf(p), LAMBDA t : t.kind = "garbage")

\* C9 (amended): the diagnostics printed for a file are one per consumed line
\* that fails to decode, blank lines included; a file has one start line once
\* begun and one completion line once completed; nothing else is printed.
C9_OneDiagnosticPerUndecodable ==
    /\ \A p \in DOMAIN snap :
          /\ LogCount("error", p) = Count(ConsumedOf(p), LAMBDA t : ~IsDecodable(t))
          /\ LogCount("start", p) = (IF p \in opened THEN 1 ELSE 0)
          /\ LogCount("completed", p) = (IF p \in done THEN 1 ELSE 0)
    /\ \A i \in DOMAIN log :
          /\ log[i].kind \in {"start", "error", "completed"}
          /\ log[i].file \in DOMAIN snap
    /\ Len(processed_lines) <= Consumed

\* a run returned after a file with a blank line and a malformed line
C9_Witness ==
    /\ status = "done"
    /\ \E p \in done :
          /\ \E i \in DOMAIN snap[p] : snap[p][i] = Blank
          /\ \E i \in DOMAIN snap[p] : snap[p][i] = Garbage
          /\ LogCount("error", p) = 2

====
